---- MODULE Spec2Model ----
(***************************************************************************)
(* Model of fabfile.py: the Fabric task push(), a straight-line sequence   *)
(* of ten shell commands (source lines 10..19) acting on the local working *)
(* directory and on /var/www/<domain> of the remote host.                  *)
(*                                                                         *)
(* A directory tree is a function from file names to 0 (the file is not    *)
(* there) or 1 (it is).  A path of either file system holds a node: absent,*)
(* or present with a tree and a tag telling whether the tree is complete,  *)
(* was left half-written by an interrupted writer, or half-deleted by an   *)
(* interrupted rm -rf.                                                     *)
(***************************************************************************)
EXTENDS Integers, Sequences, FiniteSets, TLC

\* ---- bounds -----------------------------------------------------------
MaxFiles == 2
MaxRuns == 3

\* ---- the program text ---------------------------------------------------
FirstLine == 10
LastLine == 19
Returned == 20
Exit == 0

Lines == FirstLine..LastLine

\* lines of push() that are run(...) or put(...): they act on the remote host
RemoteLines == {12, 13, 14, 17, 18, 19}

\* the step of the eight-step description a source line belongs to
StepOf(l) ==
    CASE l = 10 -> 1
      [] l = 11 -> 2
      [] l \in {12, 13} -> 3
      [] l = 14 -> 4
      [] l \in {15, 16} -> 5
      [] l = 17 -> 6
      [] l = 18 -> 7
      [] l = 19 -> 8

\* ---- file-system values -------------------------------------------------
Files == 1..MaxFiles
Tree == [Files -> 0..1]
NoFiles == [f \in Files |-> 0]

Absent == [present |-> FALSE, tree |-> NoFiles, st |-> "whole"]
Whole(t) == [present |-> TRUE, tree |-> t, st |-> "whole"]

\* the trees holding only some of the files of t
ProperSubTrees(t) ==
    {u \in Tree : u # t /\ \A f \in Files : u[f] \in {0, t[f]}}

HalfWritten(t) ==
    {[present |-> TRUE, tree |-> u, st |-> "halfWritten"] : u \in ProperSubTrees(t)}

HalfDeleted(n) ==
    IF n.present
    THEN {[present |-> TRUE, tree |-> u, st |-> "halfDeleted"] : u \in ProperSubTrees(n.tree)}
    ELSE {}

\* an archive file cut short by an interrupted transfer
Truncated(a) == [present |-> TRUE, tree |-> a.tree, st |-> "halfWritten"]

VARIABLES
    src,         \* the site `jekyll build` generates from the sources of the current run
    localSite,   \* ./_site
    localZip,    \* ./_site.zip
    remoteZip,   \* /var/www/<domain>/_site.zip
    remoteSite,  \* /var/www/<domain>/_site
    remoteSub,   \* /var/www/<domain>/<subdom>
    pc,          \* source line about to execute; Exit after abort, Returned after line 19
    status,      \* "idle", "running", "ok" (exit 0), "failed" (exit non-zero)
    log,         \* lines executed by the current run, in order
    failedAt,    \* first line of the current run whose command failed, 0 if none
    cause,       \* "none", "env" (outside fault) or "cmd" (the command's own precondition)
    start,       \* what the current run found when it was invoked, and whether
                 \* the sources had been edited since the run before it
    prev,        \* status of the run before the current one
    runs

fs == <<localSite, localZip, remoteZip, remoteSite, remoteSub>>
ctl == <<pc, status, log, failedAt, cause>>
hist == <<start, prev, runs>>
vars == <<src, localSite, localZip, remoteZip, remoteSite, remoteSub,
          pc, status, log, failedAt, cause, start, prev, runs>>

NoStart == [zip |-> Absent, site |-> Absent, sub |-> Absent,
            lzip |-> Absent, edited |-> FALSE]

Init ==
    /\ src = NoFiles
    /\ localSite = Absent
    /\ localZip = Absent
    /\ remoteZip = Absent
    /\ remoteSite = Absent
    /\ remoteSub = Absent
    /\ pc = Exit
    /\ status = "idle"
    /\ log = <<>>
    /\ failedAt = 0
    /\ cause = "none"
    /\ start = NoStart
    /\ prev = "none"
    /\ runs = 0

\* ---- control flow -------------------------------------------------------
\* the local cleanup left out
AfterSkipCleanup(l) == IF l = 14 THEN 17 ELSE l + 1
\* the extraction left out
AfterSkipUnzip(l) == IF l = 16 THEN 18 ELSE l + 1
\* the local cleanup placed before the transfer
AfterCleanupFirst(l) ==
    CASE l = 13 -> 15
      [] l = 16 -> 14
      [] l = 14 -> 17
      [] OTHER -> l + 1
\* the subdomain directory deleted before the extraction
AfterDeleteBeforeUnzip(l) ==
    CASE l = 16 -> 18
      [] l = 18 -> 17
      [] l = 17 -> 19
      [] OTHER -> l + 1
\* the subdomain directory deleted with the remote pre-clean
AfterDeleteEarly(l) ==
    CASE l = 13 -> 18
      [] l = 18 -> 14
      [] l = 17 -> 19
      [] OTHER -> l + 1
\* statements of the function body run one after the other
After(l) == l + 1

OnFailureWarn(l) == After(l)
\* local(), run() and put() abort the task when the command fails
OnFailure(l) == Exit

\* bookkeeping shared by every line: where control goes and what is recorded
Finish(l, failed, why) ==
    LET n == IF failed THEN OnFailure(l) ELSE After(l) IN
    /\ pc' = n
    /\ log' = Append(log, l)
    /\ status' = IF n = Exit THEN "failed"
                 ELSE IF n > LastLine THEN (IF failedAt # 0 \/ failed THEN "failed" ELSE "ok")
                 ELSE "running"
    /\ failedAt' = IF failed /\ failedAt = 0 THEN l ELSE failedAt
    /\ cause' = IF failed /\ failedAt = 0 THEN why ELSE cause

At(l) == status = "running" /\ pc = l

Why(cmdFails) == IF cmdFails THEN "cmd" ELSE "env"

\* ---- the operator runs `fab push` ---------------------------------------
\* sources is what the working directory holds at that moment: the operator
\* may have edited the site since the run before
Invoke(sources) ==
    /\ status # "running"
    /\ runs < MaxRuns
    /\ runs' = runs + 1
    /\ src' = sources
    /\ pc' = FirstLine
    /\ status' = "running"
    /\ log' = <<>>
    /\ failedAt' = 0
    /\ cause' = "none"
    /\ start' = [zip |-> remoteZip, site |-> remoteSite, sub |-> remoteSub,
                 lzip |-> localZip, edited |-> (sources # src)]
    /\ prev' = IF status = "idle" THEN "none" ELSE status
    /\ UNCHANGED fs

\* ---- the commands -------------------------------------------------------
\* `jekyll build`: regenerates _site, dropping whatever was there
JekyllBuild(sources) == Whole(sources)

\* `zip -r _site _site`: adds the files of the directory to _site.zip and
\* replaces the entries of the same name; an existing archive is updated, so
\* its entries for files no longer in the directory stay
ZipUpdate(arch, dir) ==
    Whole([f \in Files |->
             IF dir.tree[f] # 0 THEN dir.tree[f]
             ELSE IF arch.present THEN arch.tree[f] ELSE 0])

\* zip has nothing to archive when the directory is missing
ZipFails(dir) == ~dir.present

RmFFailsNoForce(n) == ~n.present
\* `rm -f` and `rm -rf` succeed whether or not the path exists
RmFFails(n) == FALSE

\* plain `rm` (line 16) fails on a missing file
RmFails(n) == ~n.present

\* put() needs the local file
PutFails(a) == ~a.present

\* unzip needs a readable archive; it does not overwrite existing files
\* without asking, which a non-interactive session cannot answer
UnzipFails(arch, dest) ==
    \/ ~arch.present
    \/ arch.st # "whole"
    \/ dest.present /\ \E f \in Files : dest.tree[f] # 0 /\ arch.tree[f] # 0

\* `unzip a -d dir`: the archive's _site/ entries appear under dir/_site
Extract(arch, dest) ==
    Whole([f \in Files |-> IF arch.tree[f] # 0 THEN arch.tree[f]
                           ELSE IF dest.present THEN dest.tree[f] ELSE 0])

\* mv needs its source
MvFails(from) == ~from.present

\* `mv _site <subdom>`: a rename when <subdom> does not exist; when it does,
\* _site is moved inside it and the files served from <subdom> stay
MvTarget(from, to) == IF to.present THEN to ELSE from

\* ---- line 10: local('jekyll build') ---------------------------------
Build ==
    /\ At(10)
    /\ \E fault \in BOOLEAN :
         IF fault
         THEN /\ localSite' \in {localSite} \cup HalfWritten(src)
              /\ Finish(10, TRUE, "env")
         ELSE /\ localSite' = JekyllBuild(src)
              /\ Finish(10, FALSE, "none")
    /\ UNCHANGED <<src, localZip, remoteZip, remoteSite, remoteSub, hist>>

\* ---- line 11: local('zip -r _site _site') ---------------------------
Zip ==
    /\ At(11)
    /\ \E fault \in BOOLEAN :
         LET fails == fault \/ ZipFails(localSite) IN
         IF fails
         THEN /\ localZip' = localZip
              /\ Finish(11, TRUE, Why(ZipFails(localSite)))
         ELSE /\ localZip' = ZipUpdate(localZip, localSite)
              /\ Finish(11, FALSE, "none")
    /\ UNCHANGED <<src, localSite, remoteZip, remoteSite, remoteSub, hist>>

\* ---- line 12: run('rm -f /var/www/<domain>/_site.zip') -------------
RemoteRmZip ==
    /\ At(12)
    /\ \E fault \in BOOLEAN :
         LET fails == fault \/ RmFFails(remoteZip) IN
         IF fails
         THEN /\ remoteZip' \in {remoteZip, Absent}
              /\ Finish(12, TRUE, Why(RmFFails(remoteZip)))
         ELSE /\ remoteZip' = Absent
              /\ Finish(12, FALSE, "none")
    /\ UNCHANGED <<src, localSite, localZip, remoteSite, remoteSub, hist>>

\* ---- line 13: run('rm -rf /var/www/<domain>/_site') ----------------
RemoteRmSite ==
    /\ At(13)
    /\ \E fault \in BOOLEAN :
         LET fails == fault \/ RmFFails(remoteSite) IN
         IF fails
         THEN /\ remoteSite' \in {remoteSite, Absent} \cup HalfDeleted(remoteSite)
              /\ Finish(13, TRUE, Why(RmFFails(remoteSite)))
         ELSE /\ remoteSite' = Absent
              /\ Finish(13, FALSE, "none")
    /\ UNCHANGED <<src, localSite, localZip, remoteZip, remoteSub, hist>>

\* ---- line 14: put('_site.zip', '/var/www/<domain>/_site.zip') ------
Put ==
    /\ At(14)
    /\ \E fault \in BOOLEAN :
         LET fails == fault \/ PutFails(localZip) IN
         IF fails
         THEN /\ remoteZip' \in {remoteZip} \cup
                     (IF localZip.present THEN {Truncated(localZip)} ELSE {})
              /\ Finish(14, TRUE, Why(PutFails(localZip)))
         ELSE /\ remoteZip' = localZip
              /\ Finish(14, FALSE, "none")
    /\ UNCHANGED <<src, localSite, localZip, remoteSite, remoteSub, hist>>

\* ---- line 15: local("rm -rf _site") ---------------------------------
LocalRmSite ==
    /\ At(15)
    /\ \E fault \in BOOLEAN :
         LET fails == fault \/ RmFFails(localSite) IN
         IF fails
         THEN /\ localSite' \in {localSite} \cup HalfDeleted(localSite)
              /\ Finish(15, TRUE, Why(RmFFails(localSite)))
         ELSE /\ localSite' = Absent
              /\ Finish(15, FALSE, "none")
    /\ UNCHANGED <<src, localZip, remoteZip, remoteSite, remoteSub, hist>>

\* ---- line 16: local("rm _site.zip") ---------------------------------
LocalRmZip ==
    /\ At(16)
    /\ \E fault \in BOOLEAN :
         LET fails == fault \/ RmFails(localZip) IN
         IF fails
         THEN /\ localZip' = localZip
              /\ Finish(16, TRUE, Why(RmFails(localZip)))
         ELSE /\ localZip' = Absent
              /\ Finish(16, FALSE, "none")
    /\ UNCHANGED <<src, localSite, remoteZip, remoteSite, remoteSub, hist>>

\* ---- line 17: run('unzip /var/www/<domain>/_site.zip -d /var/www/<domain>')
Unzip ==
    /\ At(17)
    /\ \E fault \in BOOLEAN :
         LET fails == fault \/ UnzipFails(remoteZip, remoteSite) IN
         IF fails
         THEN /\ remoteSite' \in {remoteSite} \cup
                     (IF remoteZip.present /\ ~remoteSite.present
                      THEN HalfWritten(remoteZip.tree) ELSE {})
              /\ Finish(17, TRUE, Why(UnzipFails(remoteZip, remoteSite)))
         ELSE /\ remoteSite' = Extract(remoteZip, remoteSite)
              /\ Finish(17, FALSE, "none")
    /\ UNCHANGED <<src, localSite, localZip, remoteZip, remoteSub, hist>>

\* ---- line 18: run('rm -rf /var/www/<domain>/<subdom>') -------------
RemoteRmSub ==
    /\ At(18)
    /\ \E fault \in BOOLEAN :
         LET fails == fault \/ RmFFails(remoteSub) IN
         IF fails
         THEN /\ remoteSub' \in {remoteSub, Absent} \cup HalfDeleted(remoteSub)
              /\ Finish(18, TRUE, Why(RmFFails(remoteSub)))
         ELSE /\ remoteSub' = Absent
              /\ Finish(18, FALSE, "none")
    /\ UNCHANGED <<src, localSite, localZip, remoteZip, remoteSite, hist>>

\* ---- line 19: run('mv /var/www/<domain>/_site /var/www/<domain>/<subdom>')
Mv ==
    /\ At(19)
    /\ \E fault \in BOOLEAN :
         LET fails == fault \/ MvFails(remoteSite) IN
         IF fails
         THEN /\ UNCHANGED <<remoteSite, remoteSub>>
              /\ Finish(19, TRUE, Why(MvFails(remoteSite)))
         ELSE /\ remoteSub' = MvTarget(remoteSite, remoteSub)
              /\ remoteSite' = Absent
              /\ Finish(19, FALSE, "none")
    /\ UNCHANGED <<src, localSite, localZip, remoteZip, hist>>

Next ==
    \/ \E sources \in Tree : Invoke(sources)
    \/ Build
    \/ Zip
    \/ RemoteRmZip
    \/ RemoteRmSite
    \/ Put
    \/ LocalRmSite
    \/ LocalRmZip
    \/ Unzip
    \/ RemoteRmSub
    \/ Mv

Spec == Init /\ [][Next]_vars

\* ---- properties -----------------------------------------------------------
Executed(l) == \E i \in 1..Len(log) : log[i] = l

RemoteNow == [zip |-> remoteZip, site |-> remoteSite, sub |-> remoteSub]
RemoteAtStart == [zip |-> start.zip, site |-> start.site, sub |-> start.sub]

\* C1: every run executes the lines of push() in source order, that is the
\* eight steps build, archive, remote pre-clean, transfer, local cleanup,
\* remote extract, remote delete, remote rename in that order, one after the
\* other, none skipped or reordered; a successful run has executed them all.
C1_FixedOrder ==
    /\ \A i \in 1..Len(log) : log[i] = FirstLine + i - 1
    /\ Len(log) > 0 => StepOf(log[1]) = 1
    /\ \A i \in 1..(Len(log) - 1) :
         StepOf(log[i + 1]) \in {StepOf(log[i]), StepOf(log[i]) + 1}
    /\ status = "running" => pc = FirstLine + Len(log)
    /\ status = "ok" => Len(log) = LastLine - FirstLine + 1 /\ StepOf(log[Len(log)]) = 8

C1_Witness == status = "ok" /\ log = <<10, 11, 12, 13, 14, 15, 16, 17, 18, 19>>

C2_FailFastState ==
    /\ failedAt # 0 =>
         /\ status = "failed"
         /\ pc = Exit
         /\ Len(log) = failedAt - FirstLine + 1
         /\ log[Len(log)] = failedAt
         /\ \A l \in Lines : l > failedAt => ~Executed(l)
    /\ status = "failed" => failedAt # 0
    /\ status = "ok" => failedAt = 0 /\ Executed(LastLine)
    /\ failedAt = FirstLine =>
         /\ \A l \in RemoteLines : ~Executed(l)
         /\ RemoteNow = RemoteAtStart

C2_FailFastStep ==
    (status = "failed" /\ status' = "failed") => UNCHANGED <<fs, ctl>>

\* C2: a failing line ends the run with the failure outcome: no later line
\* executes, the failed line is not executed again, the file systems stay as
\* the failure left them, and the success outcome comes only after line 19;
\* when the build fails no remote command executes.
C2_FailFast == [](C2_FailFastState) /\ [][C2_FailFastStep]_vars

C2_Witness ==
    /\ status = "failed"
    /\ failedAt = FirstLine
    /\ prev = "ok"
    /\ remoteSub.present

\* C3: after a successful run the subdomain directory holds exactly the site
\* built by this run, whatever the local and remote state before the run.
C3_FreshCopy == status = "ok" => remoteSub = Whole(src)

\* C4: the live subdomain directory never holds a half-extracted tree, and
\* it is touched by a run only after the archive was fully extracted to _site.
C4_NoHalfExtractedLive ==
    /\ remoteSub.st # "halfWritten"
    /\ (At(18) \/ At(19)) =>
         /\ remoteZip.present
         /\ remoteSite = Whole(remoteZip.tree)
    /\ (status # "idle" /\ remoteSub # start.sub) =>
         /\ Executed(17)
         /\ failedAt # 17
    /\ (status = "ok" /\ remoteSub.present) => remoteSub = Whole(remoteZip.tree)

C4_Witness ==
    /\ status = "ok"
    /\ start.sub.present
    /\ remoteSub # start.sub
    /\ remoteSub.st = "whole"

\* C5 (as stated): there is no window in which the subdomain path is absent;
\* a run that has not completed the final rename leaves the old deployment
\* where it was.
C5_NoWindow ==
    (status \in {"running", "failed"} /\ start.sub.present) => remoteSub = start.sub

\* C5 (amended): the subdomain directory is deleted only after the
\* replacement directory is fully present, and a run that fails at any line
\* before the delete of the subdomain directory (line 18) leaves the old
\* deployment as it was.
C5_DeleteAfterExtract ==
    /\ (status \in {"running", "failed"} /\ ~Executed(18)) => remoteSub = start.sub
    /\ Executed(18) =>
         /\ Executed(17)
         /\ failedAt # 17
    /\ At(18) => remoteSite.present /\ remoteSite.st = "whole"

C5_Witness ==
    /\ status = "failed"
    /\ failedAt = 17
    /\ start.sub.present
    /\ remoteSub = start.sub
    /\ remoteSite.st = "halfWritten"

\* C6: two successful runs in succession, the sources not edited in between,
\* leave the same content in the subdomain directory.
C6_Idempotent ==
    (status = "ok" /\ prev = "ok" /\ ~start.edited) => remoteSub = start.sub

CleanFinal ==
    /\ remoteSub = Whole(src)
    /\ remoteZip = Whole(src)
    /\ remoteSite = Absent
    /\ localSite = Absent
    /\ localZip = Absent

\* C7: a run that follows a failed run does not fail because of what the
\* failed run left behind, and when it succeeds it ends in the state a
\* successful run from a clean state ends in.
C7_RetryIdempotent ==
    /\ (prev = "failed" /\ failedAt # 0) => cause = "env"
    /\ (status = "ok" /\ prev = "failed" /\ ~start.edited) => CleanFinal

\* C8: after a successful run neither _site nor _site.zip exists locally;
\* after a run that failed before the local cleanup, the build output and
\* the archive produced so far are still there.
C8_LocalCleanup ==
    /\ status = "ok" => localSite = Absent /\ localZip = Absent
    /\ failedAt \in 11..14 =>
         /\ localSite.present
         /\ localSite.st = "whole"
         /\ localSite = JekyllBuild(src)
    /\ failedAt \in 12..14 =>
         /\ localZip.present
         /\ localZip.st = "whole"
         /\ \A f \in Files : localSite.tree[f] # 0 => localZip.tree[f] = localSite.tree[f]
    /\ failedAt \in 10..11 => localZip = start.lzip

C8_Witness ==
    /\ status = "failed"
    /\ failedAt = 14
    /\ localSite.present
    /\ localZip.present
    /\ ~start.lzip.present

\* C9: when the transfer fails after the remote pre-clean, the subdomain
\* directory is as it was before the run, the local cleanup has not run and
\* the local archive is still present.
C9_TransferFailure ==
    failedAt = 14 =>
        /\ Executed(12) /\ Executed(13)
        /\ remoteSub = start.sub
        /\ ~Executed(15) /\ ~Executed(16)
        /\ localZip.present

C9_Witness ==
    /\ status = "failed"
    /\ failedAt = 14
    /\ start.sub.present
    /\ start.zip.present
    /\ remoteSub = start.sub

\* C10: a remote _site.zip or _site left from before the run is gone before
\* the transfer and before the extraction, and neither its presence nor its
\* absence makes the pre-clean, the transfer or the extraction fail.
C10_PreClean ==
    /\ At(14) => remoteZip = Absent /\ remoteSite = Absent
    /\ At(17) => remoteSite = Absent /\ remoteZip.present /\ remoteZip.st = "whole"
    /\ failedAt \in {12, 13, 14, 17} => cause = "env"

C10_Witness ==
    /\ At(17)
    /\ start.zip.present
    /\ start.site.present
    /\ remoteZip # start.zip

====
